---- MODULE Spec2Model ----
(***************************************************************************)
(* A model of ts-interface-checker: the type nodes of types.ts, the        *)
(* compilation of a type node into a checker (getChecker), the run of a    *)
(* compiled checker on a value, and the Checker facade of index.ts.        *)
(*                                                                         *)
(* A JavaScript closure is modelled by a record describing it; the         *)
(* variables a closure captures by reference (the `checkerFunc` binding of *)
(* TName.getChecker, the `allowedProps` Set of TIface/TIntersection) are   *)
(* cells of a heap, named by their index.                                  *)
(***************************************************************************)
EXTENDS Integers, Sequences, FiniteSets, TLC

VARIABLES
  suiteId,    \* which argument list createCheckers() is called with
  phase,      \* "new" before createCheckers(), then "ready" or "threw"
  checkers,   \* the ICheckerSuite returned: <<[name, plain, strict]>>
  heap,       \* [cells, sets]: the bindings the compiled closures captured
  slots,      \* the _checkerBeingBuilt slots that are set, {[node, cell, args]}
  reused,     \* the getChecker calls that returned a cached checker
  thrown,     \* the message of the error createCheckers() threw, or ""
  sel,        \* the checker and value the calls of this run are made on
  last        \* the last facade call and its outcome

vars == <<suiteId, phase, checkers, heap, slots, reused, thrown, sel, last>>

-----------------------------------------------------------------------------
(* Bounds of the model *)

\* numbers occurring in values are 1..MaxNum
MaxNum == 1
\* arrays built by the value generator have at most MaxArrLen elements
MaxArrLen == 2
\* nested getChecker() calls / thunk dereferences allowed before the
\* JavaScript stack is taken to be exhausted
MaxStack == 40

-----------------------------------------------------------------------------
(* JavaScript values *)

Undef == [t |-> "undefined"]
Null == [t |-> "null"]
Num(n) == [t |-> "number", n |-> n]
Str(s) == [t |-> "string", s |-> s]
Bool(b) == [t |-> "boolean", b |-> b]
Fn == [t |-> "function"]
Arr(items) == [t |-> "array", items |-> items]
\* an object: its own enumerable keys in insertion order, and their values
Obj(ks, vs) == [t |-> "object", ks |-> ks, vs |-> vs]

\* value === other, for the scalars literals and enums hold
StrictEq(a, b) == a.t = b.t /\ a = b

IsArray(v) == v.t = "array"

RECURSIVE DigitsOf(_)
DigitsOf(n) ==
  LET d == <<"0", "1", "2", "3", "4", "5", "6", "7", "8", "9">>[(n % 10) + 1]
  IN IF n < 10 THEN d ELSE DigitsOf(n \div 10) \o d

\* String(n)
NumStr(n) == IF n < 0 THEN "-" \o DigitsOf(0 - n) ELSE DigitsOf(n)

\* typeof value === "object" && value !== null
IsObject(v) == v.t \in {"object", "array"}

\* the keys `for (const prop in value)` visits
KeysOf(v) ==
  CASE v.t = "object" -> v.ks
    [] v.t = "array" -> [i \in 1..Len(v.items) |-> NumStr(i - 1)]
    [] OTHER -> <<>>

\* value[i] of an array, i counted from 0
GetIdx(v, i) == IF i + 1 <= Len(v.items) THEN v.items[i + 1] ELSE Undef

\* value[name] of a non-null object
GetKey(v, k) ==
  LET ks == KeysOf(v)
  IN IF \E i \in 1..Len(ks) : ks[i] = k
     THEN LET i == CHOOSE i \in 1..Len(ks) : ks[i] = k
          IN IF v.t = "array" THEN v.items[i] ELSE v.vs[i]
     ELSE Undef

\* JSON.stringify(value) of a scalar
JSONstringify(v) ==
  CASE v.t = "string" -> "\"" \o v.s \o "\""
    [] v.t = "number" -> NumStr(v.n)
    [] v.t = "boolean" -> IF v.b THEN "true" ELSE "false"
    [] v.t = "null" -> "null"
    [] OTHER -> "undefined"

RECURSIVE Join(_, _)
Join(ss, sep) ==
  IF Len(ss) = 0 THEN ""
  ELSE IF Len(ss) = 1 THEN ss[1]
  ELSE ss[1] \o sep \o Join(Tail(ss), sep)

-----------------------------------------------------------------------------
(* Type nodes *)

\* a plain string used as a TypeSpec
S(s) == [tag |-> "str", name |-> s]

name(value) == [tag |-> "name", name |-> value]

parseSpec(typeSpec) == IF typeSpec.tag = "str" THEN name(typeSpec.name) ELSE typeSpec

getTypeName(t) ==
  IF t.tag \in {"name", "lit"} \/ (t.tag = "array" /\ t.hasName) THEN t.name ELSE ""

lit(value) == [tag |-> "lit", value |-> value, name |-> JSONstringify(value)]

TArray(ttype) ==
  [tag |-> "array", ttype |-> ttype,
   hasName |-> getTypeName(ttype) # "",
   name |-> getTypeName(ttype) \o "[]"]
array(typeSpec) == TArray(parseSpec(typeSpec))

\* _start of a RestType no tuple has adopted
NoStart == -1
rest(typeSpec) == [tag |-> "rest", typeSpec |-> typeSpec, start |-> NoStart]

MapSpec(typeSpecs) == [i \in 1..Len(typeSpecs) |-> parseSpec(typeSpecs[i])]

TTuple(ttypes) ==
  LET n == Len(ttypes)
  IN IF n > 0 /\ ttypes[n].tag = "rest"
     THEN [tag |-> "tuple", ttypes |-> SubSeq(ttypes, 1, n - 1), hasRest |-> TRUE,
           restType |-> [ttypes[n] EXCEPT !.start = n - 1]]
     ELSE [tag |-> "tuple", ttypes |-> ttypes, hasRest |-> FALSE]
tuple(typeSpecs) == TTuple(MapSpec(typeSpecs))

TUnion(ttypes) ==
  LET named == SelectSeq(ttypes, LAMBDA t : getTypeName(t) # "")
      names == [i \in 1..Len(named) |-> getTypeName(named[i])]
      otherTypes == Len(ttypes) - Len(names)
  IN [tag |-> "union", ttypes |-> ttypes,
      failMsg |->
        IF Len(names) > 0
        THEN "is none of " \o
             Join(IF otherTypes > 0
                  THEN Append(names, NumStr(otherTypes) \o " more") ELSE names, ", ")
        ELSE "is none of " \o NumStr(otherTypes) \o " types"]
union(typeSpecs) == TUnion(MapSpec(typeSpecs))

intersection(typeSpecs) == [tag |-> "intersection", ttypes |-> MapSpec(typeSpecs)]

partial(typeSpec) == [tag |-> "partial", ttype |-> parseSpec(typeSpec)]

\* members: <<[name, value]>>
enumtype(members) == [tag |-> "enum", members |-> members]

enumlit(enumName, prop) == [tag |-> "enumlit", enumName |-> enumName, prop |-> prop]

opt(typeSpec) == [tag |-> "opt", ttype |-> parseSpec(typeSpec)]

\* one entry of the props object of iface()
P(n, spec) == [name |-> n, spec |-> spec]

makeIfaceProp(n, prop) ==
  IF prop.tag = "opt"
  THEN [name |-> n, ttype |-> prop.ttype, isOpt |-> TRUE]
  ELSE [name |-> n, ttype |-> parseSpec(prop), isOpt |-> FALSE]

makeIfaceProps(props) == [i \in 1..Len(props) |-> makeIfaceProp(props[i].name, props[i].spec)]

TIface(bases, props, hasIndex, indexType) ==
  [tag |-> "iface", bases |-> bases, props |-> props,
   hasIndex |-> hasIndex, indexType |-> indexType,
   propSet |-> {props[i].name : i \in 1..Len(props)}]

\* iface(bases, {...props}) without an [indexKey] entry
iface(bases, props) == TIface(bases, makeIfaceProps(props), FALSE, S(""))
\* iface(bases, {...props, [indexKey]: indexSpec})
ifaceIdx(bases, props, indexSpec) ==
  TIface(bases, makeIfaceProps(props), TRUE, parseSpec(indexSpec))

param(n, typeSpec, isOpt) == [name |-> n, ttype |-> parseSpec(typeSpec), isOpt |-> isOpt]

func(resultSpec, params) ==
  [tag |-> "func", paramList |-> [tag |-> "paramlist", params |-> params],
   result |-> parseSpec(resultSpec)]

BasicNames ==
  {"any", "unknown", "number", "object", "boolean", "string", "symbol", "void",
   "undefined", "null", "never", "Date", "RegExp", "Buffer"}

BasicMessage(n) ==
  CASE n \in {"any", "unknown"} -> "is invalid"
    [] n = "never" -> "is unexpected"
    [] n = "object" -> "is not an object"
    [] n = "void" -> "is not void"
    [] n = "undefined" -> "is not undefined"
    [] n = "null" -> "is not null"
    [] OTHER -> "is not a " \o n

\* the validator of basicTypes[n], on the values of this model (which hold
\* no symbol, Date, RegExp or Buffer)
BasicValidator(n, v) ==
  CASE n \in {"any", "unknown"} -> TRUE
    [] n = "number" -> v.t = "number"
    [] n = "object" -> v.t \in {"object", "array"}
    [] n = "boolean" -> v.t = "boolean"
    [] n = "string" -> v.t = "string"
    [] n = "void" -> v.t \in {"undefined", "null"}
    [] n = "undefined" -> v.t = "undefined"
    [] n = "null" -> v.t = "null"
    [] OTHER -> FALSE

BasicType(n) == [tag |-> "basic", name |-> n]

-----------------------------------------------------------------------------
(* Type suites *)

\* one entry of a type suite
E(n, ttype) == [name |-> n, ttype |-> ttype]

\* Object.assign({}, basicTypes, ...typeSuite): for every name the entry of
\* the last suite that has it; `node` is the identity of the type object.
FullSuite(typeSuite) ==
  LET has(k, n) == \E i \in 1..Len(typeSuite[k]) : typeSuite[k][i].name = n
      winner(n) == CHOOSE k \in 1..Len(typeSuite) :
                     has(k, n) /\ \A j \in (k + 1)..Len(typeSuite) : ~has(j, n)
      at(k, n) == CHOOSE i \in 1..Len(typeSuite[k]) : typeSuite[k][i].name = n
      names == UNION {{typeSuite[k][i].name : i \in 1..Len(typeSuite[k])} :
                        k \in 1..Len(typeSuite)}
  IN [n \in names |->
        [ttype |-> typeSuite[winner(n)][at(winner(n), n)].ttype,
         node |-> <<winner(n), at(winner(n), n)>>]]

\* HasType finding every name
HasTypeAlways(suite, n) == TRUE

\* suite[name], and whether it is there
HasType(suite, n) == n \in DOMAIN suite \/ n \in BasicNames
getNamedType(suite, n) ==
  IF n \in DOMAIN suite THEN suite[n]
  ELSE [ttype |-> BasicType(n), node |-> <<0>>]

-----------------------------------------------------------------------------
(* Diagnostic contexts (util.ts) *)

KNull == [kt |-> "null"]
KStr(s) == [kt |-> "string", s |-> s]
KNum(i) == [kt |-> "number", n |-> i]

NoopContext == [k |-> "noop", failed |-> FALSE]
DetailContext == [k |-> "detail", frames |-> <<>>, forks |-> <<>>]

\* ctx.fail(relPath, message, score); the call itself returns false
Fail(ctx, key, message, score) ==
  IF ctx.k = "noop" THEN [ctx EXCEPT !.failed = TRUE]
  ELSE [ctx EXCEPT !.frames = Append(@, [key |-> key, message |-> message, score |-> score])]

\* ctx.failed()
Failed(ctx) ==
  IF ctx.k = "noop" THEN ctx.failed ELSE Len(ctx.frames) > 0 \/ Len(ctx.forks) > 0

\* ctx.fork(), and ur.createContext(): an empty context of the same kind
Fork(ctx) == IF ctx.k = "noop" THEN NoopContext ELSE DetailContext

\* ctx.completeFork(): the fork, as the checker left it, is merged into ctx
CompleteFork(ctx, fork) ==
  IF ctx.k = "noop" THEN [ctx EXCEPT !.failed = @ \/ fork.failed]
  ELSE IF Failed(fork) THEN [ctx EXCEPT !.forks = Append(@, fork)] ELSE ctx

\* what ctx.completeFork() returns: errors accumulate
CompleteForkResult(ctx) == TRUE

RECURSIVE CtxDepth(_)
CtxDepth(ctx) ==
  LET sub == {CtxDepth(ctx.forks[i]) : i \in 1..Len(ctx.forks)}
  IN Len(ctx.frames) + (IF sub = {} THEN 0 ELSE CHOOSE m \in sub : \A x \in sub : x <= m)

RECURSIVE SumScores(_, _)
SumScores(frames, i) ==
  IF i > Len(frames) THEN 0 ELSE frames[i].score + SumScores(frames, i + 1)

RECURSIVE CtxScore(_)
RECURSIVE SumCtxScores(_, _)
SumCtxScores(forks, i) ==
  IF i > Len(forks) THEN 0 ELSE CtxScore(forks[i]) + SumCtxScores(forks, i + 1)
CtxScore(ctx) == SumScores(ctx.frames, 1) + SumCtxScores(ctx.forks, 1)

\* ctx.resolveUnion(ur): the frames of the alternative that failed deepest
\* (then with the highest score, then first) are promoted into ctx
ResolveUnion(ctx, contexts) ==
  IF ctx.k = "noop" \/ Len(contexts) = 0 THEN ctx
  ELSE
    LET better(a, b) ==
          \/ CtxDepth(a) > CtxDepth(b)
          \/ CtxDepth(a) = CtxDepth(b) /\ CtxScore(a) > CtxScore(b)
        best == CHOOSE i \in 1..Len(contexts) :
                  /\ \A j \in 1..Len(contexts) : ~better(contexts[j], contexts[i])
                  /\ \A j \in 1..(i - 1) : better(contexts[i], contexts[j])
    IN [ctx EXCEPT !.frames = @ \o contexts[best].frames,
                   !.forks = @ \o contexts[best].forks]

\* the path of a frame stack below `path`: frames are leaf-first
RECURSIVE RenderPath(_, _, _)
RenderPath(path, frames, i) ==
  IF i = 0 THEN path
  ELSE LET key == frames[i].key
       IN RenderPath(
            CASE key.kt = "number" -> path \o "[" \o NumStr(key.n) \o "]"
              [] key.kt = "string" -> path \o "." \o key.s
              [] OTHER -> path,
            frames, i - 1)

\* the message of the deepest frame that has one
DeepestMessage(frames) ==
  LET with == SelectSeq(frames, LAMBDA f : f.message # "")
  IN IF Len(with) = 0 THEN "" ELSE with[1].message

\* ctx.getErrorDetails(path): one {path, message} per leaf-level failure
RECURSIVE getErrorDetails(_, _)
RECURSIVE ForkDetails(_, _, _)
ForkDetails(forks, path, i) ==
  IF i > Len(forks) THEN <<>>
  ELSE getErrorDetails(forks[i], path) \o ForkDetails(forks, path, i + 1)
getErrorDetails(ctx, path) ==
  LET here == RenderPath(path, ctx.frames, Len(ctx.frames))
      below == ForkDetails(ctx.forks, here, 1)
      message == DeepestMessage(ctx.frames)
  IN IF Len(below) > 0 THEN below
     ELSE IF message # "" THEN <<[path |-> here, message |-> message]>>
     ELSE <<>>

-----------------------------------------------------------------------------
(* Running a compiled checker: (value, ctx) => boolean *)

\* what a call of a checker leaves: its result, the context as it left it,
\* and whether it threw a TypeError instead of returning
Ok(ctx) == [ok |-> TRUE, ctx |-> ctx, crash |-> FALSE]
No(ctx) == [ok |-> FALSE, ctx |-> ctx, crash |-> FALSE]
Crash(ctx) == [ok |-> FALSE, ctx |-> ctx, crash |-> TRUE]

\* the binding a thunk reads before it was assigned
Unassigned == [c |-> "undefined"]

RECURSIVE Run(_, _, _, _, _)
RECURSIVE RunItems(_, _, _, _, _, _)
RECURSIVE RunTuple(_, _, _, _, _, _)
RECURSIVE RunUnion(_, _, _, _, _, _, _)
RECURSIVE RunIntersection(_, _, _, _, _, _)
RECURSIVE RunBases(_, _, _, _, _, _)
RECURSIVE RunProps(_, _, _, _, _, _)
RECURSIVE RunIndex(_, _, _, _, _, _)
RECURSIVE RunParams(_, _, _, _, _, _)

\* for (let i = start; i < value.length; i++) of TArray and RestType
RunItems(itemChecker, value, i, ctx, h, d) ==
  IF i >= Len(value.items) THEN Ok(ctx)
  ELSE LET ThenR(r) ==
             IF r.crash THEN r
             ELSE IF ~r.ok THEN No(Fail(r.ctx, KNum(i), "", 1))
             ELSE RunItems(itemChecker, value, i + 1, r.ctx, h, d)
       IN ThenR(Run(itemChecker, GetIdx(value, i), ctx, h, d))

\* the loop of TTuple's checker over itemCheckers
RunTuple(itemCheckers, value, i, ctx, h, d) ==
  IF i >= Len(itemCheckers) THEN Ok(ctx)
  ELSE LET ThenR(r) ==
             IF r.crash THEN r
             ELSE IF ~r.ok THEN No(Fail(r.ctx, KNum(i), "", 1))
             ELSE RunTuple(itemCheckers, value, i + 1, r.ctx, h, d)
       IN ThenR(Run(itemCheckers[i + 1], GetIdx(value, i), ctx, h, d))

\* RunUnion giving up after its first alternative
RunUnionFirstOnly(chk, value, i, contexts, ctx, h, d) ==
  LET ThenR(r) ==
        IF r.crash THEN Crash(ctx)
        ELSE IF r.ok THEN Ok(ctx)
        ELSE No(Fail(ResolveUnion(ctx, <<r.ctx>>), KNull, chk.failMsg, 0))
  IN ThenR(Run(chk.items[1], value, Fork(ctx), h, d))

\* the checker TUnion.getChecker returns
RunUnion(chk, value, i, contexts, ctx, h, d) ==
  IF i > Len(chk.items)
  THEN No(Fail(ResolveUnion(ctx, contexts), KNull, chk.failMsg, 0))
  ELSE LET ThenR(r) ==
             IF r.crash THEN Crash(ctx)
             ELSE IF r.ok THEN Ok(ctx)
             ELSE RunUnion(chk, value, i + 1, Append(contexts, r.ctx), ctx, h, d)
       IN ThenR(Run(chk.items[i], value, Fork(ctx), h, d))

\* checker(value, ctx.fork()); ctx.completeFork(): the context after it
Merged(ctx, r) == CompleteFork(ctx, r.ctx)

\* the checker TIntersection.getChecker returns
RunIntersection(itemCheckers, value, i, ctx, h, d) ==
  IF i > Len(itemCheckers) THEN (IF Failed(ctx) THEN No(ctx) ELSE Ok(ctx))
  ELSE LET ThenR(r) ==
             IF r.crash THEN Crash(ctx)
             ELSE IF ~CompleteForkResult(Merged(ctx, r)) THEN No(Merged(ctx, r))
             ELSE RunIntersection(itemCheckers, value, i + 1, Merged(ctx, r), h, d)
       IN ThenR(Run(itemCheckers[i], value, Fork(ctx), h, d))

\* TIface's checker: for (let i = 0; i < baseCheckers.length; i++)
RunBases(chk, value, i, ctx, h, d) ==
  IF i > Len(chk.bases) THEN Ok(ctx)
  ELSE LET ThenR(r) ==
             IF r.crash THEN Crash(ctx)
             ELSE IF ~CompleteForkResult(Merged(ctx, r)) THEN No(Merged(ctx, r))
             ELSE RunBases(chk, value, i + 1, Merged(ctx, r), h, d)
       IN ThenR(Run(chk.bases[i], value, Fork(ctx), h, d))

\* const ok = checker(v, fork); if (!ok) { fork.fail(key, null, 1); }
\* ctx.completeFork(): the context after it
MergedAt(ctx, r, key) ==
  CompleteFork(ctx, IF r.ok THEN r.ctx ELSE Fail(r.ctx, KStr(key), "", 1))

\* ctx.fork().fail(key, message, score); ctx.completeFork(): the context
\* after it
MergedFail(ctx, key, message, score) ==
  CompleteFork(ctx, Fail(Fork(ctx), KStr(key), message, score))

\* TIface's checker: for (let i = 0; i < propCheckers.length; i++)
RunProps(chk, value, i, ctx, h, d) ==
  IF i > Len(chk.props) THEN Ok(ctx)
  ELSE IF GetKey(value, chk.props[i].name) = Undef
  THEN IF chk.isPropRequired[i] /\ ~chk.isPartial
       THEN IF ~CompleteForkResult(MergedFail(ctx, chk.props[i].name, "is missing", 1))
            THEN No(MergedFail(ctx, chk.props[i].name, "is missing", 1))
            ELSE RunProps(chk, value, i + 1,
                          MergedFail(ctx, chk.props[i].name, "is missing", 1), h, d)
       ELSE RunProps(chk, value, i + 1, ctx, h, d)
  ELSE LET ThenR(r) ==
             IF r.crash THEN Crash(ctx)
             ELSE IF ~CompleteForkResult(MergedAt(ctx, r, chk.props[i].name))
             THEN No(MergedAt(ctx, r, chk.props[i].name))
             ELSE RunProps(chk, value, i + 1, MergedAt(ctx, r, chk.props[i].name), h, d)
       IN ThenR(Run(chk.props[i].checker, GetKey(value, chk.props[i].name), Fork(ctx), h, d))

\* RunIndex with the test of `strict` inverted
RunIndexInverted(chk, value, i, ctx, h, d) ==
  IF i > Len(KeysOf(value)) THEN Ok(ctx)
  ELSE IF chk.hasIndex
  THEN LET ThenR(r) ==
             IF r.crash THEN Crash(ctx)
             ELSE IF ~CompleteForkResult(MergedAt(ctx, r, KeysOf(value)[i]))
             THEN No(MergedAt(ctx, r, KeysOf(value)[i]))
             ELSE RunIndex(chk, value, i + 1, MergedAt(ctx, r, KeysOf(value)[i]), h, d)
       IN ThenR(Run(chk.indexTypeChecker, GetKey(value, KeysOf(value)[i]), Fork(ctx), h, d))
  ELSE IF ~chk.strict /\ KeysOf(value)[i] \notin h.sets[chk.allowedProps]
  THEN IF ~CompleteForkResult(MergedFail(ctx, KeysOf(value)[i], "is extraneous", 2))
       THEN No(MergedFail(ctx, KeysOf(value)[i], "is extraneous", 2))
       ELSE RunIndex(chk, value, i + 1,
                     MergedFail(ctx, KeysOf(value)[i], "is extraneous", 2), h, d)
  ELSE RunIndex(chk, value, i + 1, ctx, h, d)

\* TIface's checker: for (const prop in value), with or without an index
\* signature; without one the loop runs in strict mode only
RunIndex(chk, value, i, ctx, h, d) ==
  IF i > Len(KeysOf(value)) THEN Ok(ctx)
  ELSE IF chk.hasIndex
  THEN LET ThenR(r) ==
             IF r.crash THEN Crash(ctx)
             ELSE IF ~CompleteForkResult(MergedAt(ctx, r, KeysOf(value)[i]))
             THEN No(MergedAt(ctx, r, KeysOf(value)[i]))
             ELSE RunIndex(chk, value, i + 1, MergedAt(ctx, r, KeysOf(value)[i]), h, d)
       IN ThenR(Run(chk.indexTypeChecker, GetKey(value, KeysOf(value)[i]), Fork(ctx), h, d))
  ELSE IF chk.strict /\ KeysOf(value)[i] \notin h.sets[chk.allowedProps]
  THEN IF ~CompleteForkResult(MergedFail(ctx, KeysOf(value)[i], "is extraneous", 2))
       THEN No(MergedFail(ctx, KeysOf(value)[i], "is extraneous", 2))
       ELSE RunIndex(chk, value, i + 1,
                     MergedFail(ctx, KeysOf(value)[i], "is extraneous", 2), h, d)
  ELSE RunIndex(chk, value, i + 1, ctx, h, d)

\* the checker TIface.getChecker returns
TIface_check(chk, value, ctx, h, d) ==
  IF ~IsObject(value) THEN No(Fail(ctx, KNull, "is not an object", 0))
  ELSE
    LET ThenB(b) ==
          IF b.crash \/ ~b.ok THEN b
          ELSE LET ThenP(p) ==
                     IF p.crash \/ ~p.ok THEN p
                     ELSE LET ThenX(x) ==
                                IF x.crash \/ ~x.ok THEN x
                                ELSE IF Failed(x.ctx) THEN No(x.ctx) ELSE Ok(x.ctx)
                          IN ThenX(RunIndex(chk, value, 1, p.ctx, h, d))
               IN ThenP(RunProps(chk, value, 1, b.ctx, h, d))
    IN ThenB(RunBases(chk, value, 1, ctx, h, d))

\* the inner `checker` of TParamList.getChecker
RunParams(chk, value, i, ctx, h, d) ==
  IF i >= Len(chk.params) THEN Ok(ctx)
  ELSE IF GetIdx(value, i) = Undef
  THEN IF chk.isParamRequired[i + 1]
       THEN No(Fail(ctx, KStr(chk.params[i + 1].name), "is missing", 1))
       ELSE RunParams(chk, value, i + 1, ctx, h, d)
  ELSE LET ThenR(r) ==
             IF r.crash THEN r
             ELSE IF ~r.ok THEN No(Fail(r.ctx, KStr(chk.params[i + 1].name), "", 1))
             ELSE RunParams(chk, value, i + 1, r.ctx, h, d)
       IN ThenR(Run(chk.params[i + 1].checker, GetIdx(value, i), ctx, h, d))

\* RestType_check with its loop starting at index 0
RestType_checkFromZero(chk, value, ctx, h, d) ==
  IF value.t \in {"undefined", "null"} THEN Crash(ctx)
  ELSE IF chk.start = NoStart \/ ~IsArray(value) THEN Ok(ctx)
  ELSE RunItems(chk.itemChecker, value, 0, ctx, h, d)

\* the checker RestType.getChecker returns; `value.length` throws on
\* undefined and null, and `undefined < n` is false
RestType_check(chk, value, ctx, h, d) ==
  IF value.t \in {"undefined", "null"} THEN Crash(ctx)
  ELSE IF chk.start = NoStart \/ ~IsArray(value) THEN Ok(ctx)
  ELSE RunItems(chk.itemChecker, value, chk.start, ctx, h, d)

\* the checker TTuple.getChecker returns
TTuple_check(chk, value, ctx, h, d) ==
  IF ~IsArray(value) THEN No(Fail(ctx, KNull, "is not an array", 0))
  ELSE LET ThenChecker(checker) ==
             IF checker.crash \/ ~checker.ok THEN checker
             ELSE IF chk.hasRest THEN Run(chk.restChecker, value, checker.ctx, h, d)
             ELSE IF ~chk.strict THEN checker
             ELSE IF Len(value.items) <= Len(chk.itemCheckers) THEN checker
             ELSE No(Fail(checker.ctx, KNum(Len(chk.itemCheckers)), "is extraneous", 2))
       IN ThenChecker(RunTuple(chk.itemCheckers, value, 0, ctx, h, d))

\* the checker TParamList.getChecker returns
TParamList_check(chk, value, ctx, h, d) ==
  IF ~IsArray(value) THEN No(Fail(ctx, KNull, "is not an array", 0))
  ELSE LET ThenChecker(checker) ==
             IF checker.crash \/ ~checker.ok THEN checker
             ELSE IF ~chk.strict THEN checker
             ELSE IF Len(value.items) <= Len(chk.params) THEN checker
             ELSE No(Fail(checker.ctx, KNum(Len(chk.params)), "is extraneous", 2))
       IN ThenChecker(RunParams(chk, value, 0, ctx, h, d))

\* checkerFunc(value, ctx), for every kind of closure getChecker() returns
Run(chk, value, ctx, h, d) ==
  CASE chk.c = "basic" ->
         IF BasicValidator(chk.name, value) THEN Ok(ctx)
         ELSE No(Fail(ctx, KNull, BasicMessage(chk.name), 0))
    [] chk.c = "literal" ->
         IF StrictEq(value, chk.value) THEN Ok(ctx)
         ELSE No(Fail(ctx, KNull, chk.failMsg, -1))
    [] chk.c = "array" ->
         IF ~IsArray(value) THEN No(Fail(ctx, KNull, "is not an array", 0))
         ELSE RunItems(chk.itemChecker, value, 0, ctx, h, d)
    [] chk.c = "rest" -> RestType_check(chk, value, ctx, h, d)
    [] chk.c = "tuple" -> TTuple_check(chk, value, ctx, h, d)
    [] chk.c = "union" -> RunUnion(chk, value, 1, <<>>, ctx, h, d)
    [] chk.c = "intersection" -> RunIntersection(chk.items, value, 1, ctx, h, d)
    [] chk.c = "undefinedOr" ->
         IF value = Undef THEN Ok(ctx) ELSE Run(chk.itemChecker, value, ctx, h, d)
    [] chk.c = "enum" ->
         IF \E i \in 1..Len(chk.members) : StrictEq(value, chk.members[i].value)
         THEN Ok(ctx)
         ELSE No(Fail(ctx, KNull, "is not a valid enum value", 0))
    [] chk.c = "iface" -> TIface_check(chk, value, ctx, h, d)
    [] chk.c = "func" ->
         IF value.t = "function" THEN Ok(ctx)
         ELSE No(Fail(ctx, KNull, "is not a function", 0))
    [] chk.c = "paramlist" -> TParamList_check(chk, value, ctx, h, d)
    [] chk.c = "named" ->
         LET ThenR(r) ==
               IF r.crash \/ r.ok THEN r ELSE No(Fail(r.ctx, KNull, chk.failMsg, 0))
         IN ThenR(Run(chk.checker, value, ctx, h, d))
    [] chk.c = "thunk" ->
         \* (value, ctx) => checkerFunc!(value, ctx)
         IF d = 0 \/ h.cells[chk.cell] = Unassigned THEN Crash(ctx)
         ELSE Run(h.cells[chk.cell], value, ctx, h, d - 1)
    [] OTHER -> Crash(ctx)

-----------------------------------------------------------------------------
(* Compiling a type node: getChecker(suite, strict, isPartial, allowedProps) *)

\* The state the compilation reads and writes: the _checkerBeingBuilt slots
\* of the TName nodes (each with the arguments of the call that set it), the
\* bindings closures captured, the error thrown, and the calls that were
\* handed a cached checker.
NewState == [slots |-> {}, cells |-> <<>>, sets |-> <<>>, err |-> "", reused |-> {}]

Ret(chk, st) == [chk |-> chk, st |-> st]
Threw(st, message) == [chk |-> Unassigned, st |-> [st EXCEPT !.err = message]]

HeapOf(st) == [cells |-> st.cells, sets |-> st.sets]

\* allowedProps when the caller passes none
NoSet == 0

\* props.map((prop, i) => !prop.isOpt && !checkers[i](undefined, testCtx)),
\* all probes sharing one NoopContext
RECURSIVE ProbeRequired(_, _, _, _, _, _)
ProbeRequired(items, i, testCtx, h, d, acc) ==
  IF i > Len(items) THEN [required |-> acc, crash |-> FALSE]
  ELSE IF items[i].isOpt
  THEN ProbeRequired(items, i + 1, testCtx, h, d, Append(acc, FALSE))
  ELSE LET ThenR(r) ==
             IF r.crash THEN [required |-> acc, crash |-> TRUE]
             ELSE ProbeRequired(items, i + 1, r.ctx, h, d, Append(acc, ~r.ok))
       IN ThenR(Run(items[i].checker, Undef, testCtx, h, d))

RECURSIVE GetChecker(_, _, _, _, _, _, _, _)
RECURSIVE GetCheckers(_, _, _, _, _, _, _, _, _, _)
RECURSIVE GetBaseCheckers(_, _, _, _, _, _, _, _, _)

\* ttypes.map((t) => t.getChecker(suite, strict, isPartial, allowedProps));
\* the i-th child of node `node` is the node Append(node, i)
GetCheckers(suite, ttypes, node, i, strict, isPartial, ap, d, st, acc) ==
  IF i > Len(ttypes) \/ st.err # "" THEN [chks |-> acc, st |-> st]
  ELSE LET ThenR(r) ==
             GetCheckers(suite, ttypes, node, i + 1, strict, isPartial, ap, d, r.st,
                         Append(acc, r.chk))
       IN ThenR(GetChecker(suite, ttypes[i], Append(node, i), strict, isPartial, ap, d, st))

\* bases.map((b) => getNamedType(suite, b).getChecker(suite, strict, isPartial, allowedProps))
GetBaseCheckers(suite, bases, i, strict, isPartial, ap, d, st, acc) ==
  IF i > Len(bases) \/ st.err # "" THEN [chks |-> acc, st |-> st]
  ELSE IF ~HasType(suite, bases[i])
  THEN [chks |-> acc, st |-> [st EXCEPT !.err = "Unknown type " \o bases[i]]]
  ELSE LET ThenR(r) ==
             GetBaseCheckers(suite, bases, i + 1, strict, isPartial, ap, d, r.st,
                             Append(acc, r.chk))
       IN ThenR(GetChecker(suite, getNamedType(suite, bases[i]).ttype,
                           getNamedType(suite, bases[i]).node, strict, isPartial, ap, d, st))

\* TName._getChecker
TName__getChecker(suite, t, node, strict, isPartial, ap, d, st) ==
  IF ~HasType(suite, t.name) THEN Threw(st, "Unknown type " \o t.name)
  ELSE
    LET ThenR(r) ==
          IF r.st.err # "" \/ getNamedType(suite, t.name).ttype.tag \in {"basic", "name"}
          THEN r
          ELSE Ret([c |-> "named", checker |-> r.chk, failMsg |-> "is not a " \o t.name],
                   r.st)
    IN ThenR(GetChecker(suite, getNamedType(suite, t.name).ttype,
                        getNamedType(suite, t.name).node, strict, isPartial, ap, d, st))

\* the arguments of a getChecker call
Args(strict, isPartial, ap) == [strict |-> strict, isPartial |-> isPartial, allowedProps |-> ap]

\* TName_getChecker clearing the slot only when _getChecker returns
TName_getCheckerNoFinally(suite, t, node, strict, isPartial, ap, d, st) ==
  IF \E s \in st.slots : s.node = node
  THEN LET being == CHOOSE s \in st.slots : s.node = node
       IN Ret([c |-> "thunk", cell |-> being.cell],
              [st EXCEPT !.reused = @ \cup {[node |-> node, name |-> t.name,
                                             cell |-> being.cell, built |-> being.args,
                                             asked |-> Args(strict, isPartial, ap)]}])
  ELSE
    LET ThenR(r) ==
          IF r.st.err # "" THEN [chk |-> Unassigned, st |-> r.st]
          ELSE Ret(r.chk, [r.st EXCEPT !.slots = {s \in @ : s.node # node},
                                       !.cells[Len(st.cells) + 1] = r.chk])
    IN ThenR(TName__getChecker(
               suite, t, node, strict, isPartial, ap, d,
               [st EXCEPT !.cells = Append(@, Unassigned),
                          !.slots = @ \cup {[node |-> node, cell |-> Len(st.cells) + 1,
                                              args |-> Args(strict, isPartial, ap)]}]))

\* TName.getChecker
TName_getChecker(suite, t, node, strict, isPartial, ap, d, st) ==
  IF \E s \in st.slots : s.node = node
  THEN LET being == CHOOSE s \in st.slots : s.node = node
       IN Ret([c |-> "thunk", cell |-> being.cell],
              [st EXCEPT !.reused = @ \cup {[node |-> node, name |-> t.name,
                                             cell |-> being.cell, built |-> being.args,
                                             asked |-> Args(strict, isPartial, ap)]}])
  ELSE
    LET ThenR(r) ==
          \* finally { this._checkerBeingBuilt = undefined; }
          IF r.st.err # ""
          THEN [chk |-> Unassigned,
                st |-> [r.st EXCEPT !.slots = {s \in @ : s.node # node}]]
          ELSE Ret(r.chk, [r.st EXCEPT !.slots = {s \in @ : s.node # node},
                                       !.cells[Len(st.cells) + 1] = r.chk])
    IN ThenR(TName__getChecker(
               suite, t, node, strict, isPartial, ap, d,
               [st EXCEPT !.cells = Append(@, Unassigned),
                          !.slots = @ \cup {[node |-> node, cell |-> Len(st.cells) + 1,
                                              args |-> Args(strict, isPartial, ap)]}]))

\* RestType.getChecker
RestType_getChecker(suite, t, node, strict, d, st) ==
  IF t.typeSpec.tag = "str" /\ ~HasType(suite, t.typeSpec.name)
  THEN Threw(st, "Unknown type " \o t.typeSpec.name)
  ELSE
    LET named == t.typeSpec.tag = "str"
        arrType == IF named THEN getNamedType(suite, t.typeSpec.name).ttype ELSE t.typeSpec
        arrNode == IF named THEN getNamedType(suite, t.typeSpec.name).node
                   ELSE Append(node, 1)
    IN IF arrType.tag # "array" THEN Threw(st, "Rest type must be an array")
       ELSE LET ThenR(r) ==
                  Ret([c |-> "rest", itemChecker |-> r.chk, start |-> t.start], r.st)
            IN ThenR(GetChecker(suite, arrType.ttype, Append(arrNode, 1), strict, FALSE,
                                NoSet, d, st))

\* TTuple.getChecker
TTuple_getChecker(suite, t, node, strict, d, st) ==
  LET ThenItems(items) ==
        LET ThenR(r) ==
              Ret([c |-> "tuple", itemCheckers |-> items.chks, hasRest |-> t.hasRest,
                   restChecker |-> r.chk, strict |-> strict], r.st)
        IN ThenR(IF t.hasRest /\ items.st.err = ""
                 THEN RestType_getChecker(suite, t.restType, Append(node, Len(t.ttypes) + 1),
                                          strict, d, items.st)
                 ELSE Ret(Unassigned, items.st))
  IN ThenItems(GetCheckers(suite, t.ttypes, node, 1, strict, FALSE, NoSet, d, st, <<>>))

\* TEnumLiteral.getChecker
TEnumLiteral_getChecker(suite, t, st) ==
  IF ~HasType(suite, t.enumName) THEN Threw(st, "Unknown type " \o t.enumName)
  ELSE
    LET ttype == getNamedType(suite, t.enumName).ttype
    IN IF ttype.tag # "enum"
       THEN Threw(st, "Type " \o t.enumName \o " used in enumlit is not an enum type")
       ELSE IF ~\E i \in 1..Len(ttype.members) : ttype.members[i].name = t.prop
       THEN Threw(st, "Unknown value " \o t.enumName \o "." \o t.prop \o " used in enumlit")
       ELSE LET i == CHOOSE i \in 1..Len(ttype.members) : ttype.members[i].name = t.prop
            IN Ret([c |-> "literal", value |-> ttype.members[i].value,
                    failMsg |-> "is not " \o t.enumName \o "." \o t.prop], st)

\* the Set an interface or intersection adds to: the one passed, or a new one
AllowedProps(ap, st) == IF ap = NoSet THEN Len(st.sets) + 1 ELSE ap

\* st with the set `ap` (new when it is the next index) holding also `names`
AddAllowed(st, ap, names) ==
  [st EXCEPT !.sets = IF ap > Len(@) THEN Append(@, names)
                      ELSE [@ EXCEPT ![ap] = @ \cup names]]

\* TIface.getChecker
TIface_getChecker(suite, t, node, strict, isPartial, ap, d, st) ==
  LET ThenBases(bases) ==
        LET ThenProps(props) ==
              LET ThenIndex(index) ==
                    LET ThenProbe(probe) ==
                          IF probe.crash THEN Threw(index.st, "TypeError")
                          ELSE Ret([c |-> "iface", bases |-> bases.chks,
                                    props |-> [i \in 1..Len(t.props) |->
                                                 [name |-> t.props[i].name,
                                                  checker |-> props.chks[i]]],
                                    isPropRequired |-> probe.required,
                                    hasIndex |-> t.hasIndex, indexTypeChecker |-> index.chk,
                                    strict |-> strict, isPartial |-> isPartial,
                                    allowedProps |-> AllowedProps(ap, st)], index.st)
                    IN IF index.st.err # "" THEN Threw(index.st, index.st.err)
                       ELSE ThenProbe(ProbeRequired(
                                        [i \in 1..Len(t.props) |->
                                           [isOpt |-> t.props[i].isOpt,
                                            checker |-> props.chks[i]]],
                                        1, NoopContext, HeapOf(index.st), d, <<>>))
              IN ThenIndex(IF t.hasIndex /\ props.st.err = ""
                           THEN GetChecker(suite, t.indexType, Append(node, Len(t.props) + 1),
                                           strict, isPartial, NoSet, d, props.st)
                           ELSE Ret(Unassigned, props.st))
        IN ThenProps(GetCheckers(suite, [i \in 1..Len(t.props) |-> t.props[i].ttype], node, 1,
                                 strict, isPartial, NoSet, d, bases.st, <<>>))
  IN ThenBases(GetBaseCheckers(suite, t.bases, 1, strict, isPartial, AllowedProps(ap, st), d,
                               AddAllowed(st, AllowedProps(ap, st), t.propSet), <<>>))

\* TParamList.getChecker
TParamList_getChecker(suite, t, node, strict, d, st) ==
  LET ThenItems(items) ==
        LET ThenProbe(probe) ==
              IF probe.crash THEN Threw(items.st, "TypeError")
              ELSE Ret([c |-> "paramlist",
                        params |-> [i \in 1..Len(t.params) |->
                                      [name |-> t.params[i].name, checker |-> items.chks[i]]],
                        isParamRequired |-> probe.required, strict |-> strict], items.st)
        IN IF items.st.err # "" THEN Threw(items.st, items.st.err)
           ELSE ThenProbe(ProbeRequired(
                            [i \in 1..Len(t.params) |->
                               [isOpt |-> t.params[i].isOpt, checker |-> items.chks[i]]],
                            1, NoopContext, HeapOf(items.st), d, <<>>))
  IN ThenItems(GetCheckers(suite, [i \in 1..Len(t.params) |-> t.params[i].ttype], node, 1,
                           strict, FALSE, NoSet, d, st, <<>>))

\* the arguments TPartial.getChecker passes on to the type it wraps
PartialArgs(isPartial, ap) == [isPartial |-> TRUE, ap |-> NoSet]

\* ttype.getChecker(suite, strict, isPartial, allowedProps), by the class of
\* ttype; `node` is the identity of the type object
GetChecker(suite, t, node, strict, isPartial, ap, d, st) ==
  IF st.err # "" THEN Ret(Unassigned, st)
  ELSE IF d = 0 THEN Threw(st, "RangeError")
  ELSE
    CASE t.tag = "basic" -> Ret([c |-> "basic", name |-> t.name], st)
      [] t.tag = "name" -> TName_getChecker(suite, t, node, strict, isPartial, ap, d - 1, st)
      [] t.tag = "lit" ->
           Ret([c |-> "literal", value |-> t.value, failMsg |-> "is not " \o t.name], st)
      [] t.tag = "array" ->
           LET ThenR(r) ==
                 Ret([c |-> "array", itemChecker |-> r.chk], r.st)
           IN ThenR(GetChecker(suite, t.ttype, Append(node, 1), strict, FALSE, NoSet, d - 1, st))
      [] t.tag = "rest" -> RestType_getChecker(suite, t, node, strict, d - 1, st)
      [] t.tag = "tuple" -> TTuple_getChecker(suite, t, node, strict, d - 1, st)
      [] t.tag = "union" ->
           LET ThenR(r) ==
                 Ret([c |-> "union", items |-> r.chks, failMsg |-> t.failMsg], r.st)
           IN ThenR(GetCheckers(suite, t.ttypes, node, 1, strict, isPartial, ap, d - 1, st, <<>>))
      [] t.tag = "intersection" ->
           LET ThenR(r) ==
                 Ret([c |-> "intersection", items |-> r.chks], r.st)
           IN ThenR(GetCheckers(suite, t.ttypes, node, 1, strict, isPartial, AllowedProps(ap, st),
                                d - 1, AddAllowed(st, AllowedProps(ap, st), {}), <<>>))
      [] t.tag = "partial" ->
           LET ThenR(r) ==
                 Ret([c |-> "undefinedOr", itemChecker |-> r.chk], r.st)
           IN ThenR(GetChecker(suite, t.ttype, Append(node, 1), strict,
                               PartialArgs(isPartial, ap).isPartial, PartialArgs(isPartial, ap).ap,
                               d - 1, st))
      [] t.tag = "opt" ->
           LET ThenR(r) ==
                 Ret([c |-> "undefinedOr", itemChecker |-> r.chk], r.st)
           IN ThenR(GetChecker(suite, t.ttype, Append(node, 1), strict, FALSE, NoSet, d - 1, st))
      [] t.tag = "enum" -> Ret([c |-> "enum", members |-> t.members], st)
      [] t.tag = "enumlit" -> TEnumLiteral_getChecker(suite, t, st)
      [] t.tag = "iface" -> TIface_getChecker(suite, t, node, strict, isPartial, ap, d - 1, st)
      [] t.tag = "func" -> Ret([c |-> "func"], st)
      [] t.tag = "paramlist" -> TParamList_getChecker(suite, t, node, strict, d - 1, st)

-----------------------------------------------------------------------------
(* The Checker facade (index.ts) *)

\* new Checker(suite, ttype): the plain compilation, then the strict one
Checker(suite, ttype, node, st) ==
  LET ThenPlain(plain) ==
        LET ThenStrict(strict) ==
              [checker |-> [ttype |-> ttype, node |-> node, path |-> "value",
                            checkerPlain |-> plain.chk, checkerStrict |-> strict.chk],
               st |-> strict.st]
        IN ThenStrict(GetChecker(suite, ttype, node, TRUE, FALSE, NoSet, MaxStack, plain.st))
  IN ThenPlain(GetChecker(suite, ttype, node, FALSE, FALSE, NoSet, MaxStack, st))

\* createCheckers(...typeSuite): a Checker for every name of every suite, in
\* order; a later suite's checker replaces an earlier one of the same name
RECURSIVE CheckersFrom(_, _, _, _, _, _)
CheckersFrom(typeSuite, fullSuite, k, i, st, acc) ==
  IF st.err # "" \/ k > Len(typeSuite) THEN [checkers |-> acc, st |-> st]
  ELSE IF i > Len(typeSuite[k]) THEN CheckersFrom(typeSuite, fullSuite, k + 1, 1, st, acc)
  ELSE LET ThenR(r) ==
             CheckersFrom(typeSuite, fullSuite, k, i + 1, r.st,
                          [n \in DOMAIN acc \cup {typeSuite[k][i].name} |->
                             IF n = typeSuite[k][i].name THEN r.checker ELSE acc[n]])
       IN ThenR(Checker(fullSuite, typeSuite[k][i].ttype, <<k, i>>, st))

createCheckers(typeSuite) ==
  CheckersFrom(typeSuite, FullSuite(typeSuite), 1, 1, NewState, <<>>)

\* what a facade call comes to: the value returned or the error thrown
Returned(kind) == [kind |-> kind, details |-> <<>>]
TypeError == [kind |-> "TypeError", details |-> <<>>]

\* Checker.test / Checker.strictTest
test(checkerFunc, value, h) ==
  LET ThenR(r) ==
        IF r.crash THEN TypeError
        ELSE IF r.ok THEN Returned("true") ELSE Returned("false")
  IN ThenR(Run(checkerFunc, value, NoopContext, h, MaxStack))

\* Checker._doValidate
doValidate(checkerFunc, value, path, h) ==
  LET ThenNoop(noop) ==
        IF noop.crash THEN TypeError
        ELSE IF noop.ok THEN Returned("null")
        ELSE LET ThenDetail(detail) ==
                   IF detail.crash THEN TypeError
                   ELSE [kind |-> "details", details |-> getErrorDetails(detail.ctx, path)]
             IN ThenDetail(Run(checkerFunc, value, DetailContext, h, MaxStack))
  IN ThenNoop(Run(checkerFunc, value, NoopContext, h, MaxStack))

\* Checker._doCheck
doCheck(checkerFunc, value, path, h) ==
  LET ThenNoop(noop) ==
        IF noop.crash THEN TypeError
        ELSE IF noop.ok THEN Returned("void")
        ELSE LET ThenDetail(detail) ==
                   IF detail.crash THEN TypeError
                   ELSE [kind |-> "VError", details |-> getErrorDetails(detail.ctx, path)]
             IN ThenDetail(Run(checkerFunc, value, DetailContext, h, MaxStack))
  IN ThenNoop(Run(checkerFunc, value, NoopContext, h, MaxStack))

Ops == {"test", "validate", "check", "strictTest", "strictValidate", "strictCheck"}

\* Call with validate() handing the strict checker to _doValidate
CallValidateStrict(op, checker, value, h) ==
  CASE op = "test" -> test(checker.checkerPlain, value, h)
    [] op = "validate" -> doValidate(checker.checkerStrict, value, checker.path, h)
    [] op = "check" -> doCheck(checker.checkerPlain, value, checker.path, h)
    [] op = "strictTest" -> test(checker.checkerStrict, value, h)
    [] op = "strictValidate" -> doValidate(checker.checkerStrict, value, checker.path, h)
    [] op = "strictCheck" -> doCheck(checker.checkerStrict, value, checker.path, h)

\* the outcome of checker.<op>(value)
Call(op, checker, value, h) ==
  CASE op = "test" -> test(checker.checkerPlain, value, h)
    [] op = "validate" -> doValidate(checker.checkerPlain, value, checker.path, h)
    [] op = "check" -> doCheck(checker.checkerPlain, value, checker.path, h)
    [] op = "strictTest" -> test(checker.checkerStrict, value, h)
    [] op = "strictValidate" -> doValidate(checker.checkerStrict, value, checker.path, h)
    [] op = "strictCheck" -> doCheck(checker.checkerStrict, value, checker.path, h)

-----------------------------------------------------------------------------
(* The type suites createCheckers() is called with, and the values checked *)

\* an argument list of createCheckers(), the property names the generated
\* objects use, and further values to check
Case(typeSuite, keys, extra) == [typeSuite |-> typeSuite, keys |-> keys, extra |-> extra]

\* a suite of one type, checked on no generated object keys
One(n, ttype) == Case(<<<<E(n, ttype)>>>>, <<>>, {})

NumberArray == array(S("number"))

\* interface Person { name: string; age: number }
PersonIface == iface(<<>>, <<P("name", S("string")), P("age", S("number"))>>)
SuitePerson ==
  Case(<<<<E("Person", PersonIface), E("PartialPerson", partial(S("Person")))>>>>,
       <<"name", "age", "nick">>,
       {Obj(<<"name", "age">>, <<Str("A"), Undef>>)})

\* interfaces extending interfaces
SuiteInherit ==
  Case(<<<<E("Base", iface(<<>>, <<P("id", S("number"))>>)),
           E("Mid", iface(<<"Base">>, <<P("m", opt(S("string")))>>)),
           E("Derived", iface(<<"Mid">>, <<P("name", S("string"))>>)),
           E("PartialDerived", partial(S("Derived")))>>>>,
       <<"id", "name", "x">>,
       {Obj(<<"id", "m", "name">>, <<Num(1), Str("A"), Str("A")>>),
        Obj(<<"id", "m", "name">>, <<Num(1), Num(1), Str("A")>>)})

IfaceA == iface(<<>>, <<P("a", S("number"))>>)
IfaceB == iface(<<>>, <<P("b", S("string"))>>)

\* intersections of interfaces: by name and inline, with a union of
\* interfaces as a conjunct, with a Partial of an interface as a conjunct
SuitesIntersection ==
  <<Case(<<<<E("A", IfaceA), E("B", IfaceB),
               E("AB", intersection(<<S("A"), S("B")>>)),
               E("InlineAB", intersection(<<IfaceA, S("B")>>))>>>>,
           <<"a", "b", "x">>, {}),
    Case(<<<<E("A", IfaceA), E("B", IfaceB),
               E("C", iface(<<>>, <<P("c", opt(S("number")))>>)),
               E("UC", intersection(<<union(<<S("A"), S("B")>>), S("C")>>))>>>>,
           <<"a", "b", "x">>,
           {Obj(<<"a", "c">>, <<Num(1), Num(1)>>), Obj(<<"b", "c", "x">>, <<Str("A"), Num(1), Num(1)>>)}),
    Case(<<<<E("A", IfaceA), E("B", IfaceB),
               E("PAB", intersection(<<partial(S("A")), S("B")>>))>>>>,
           <<"a", "b", "x">>, {})>>

\* unions: of interfaces in both orders; of a basic type, a literal, an
\* intersection and another union; discriminated by a literal property
SuitesUnion ==
  <<Case(<<<<E("A", IfaceA), E("B", IfaceB),
               E("UAB", union(<<S("A"), S("B")>>)),
               E("UBA", union(<<S("B"), S("A")>>))>>>>,
           <<"a", "b">>, {}),
    Case(<<<<E("A", IfaceA), E("B", IfaceB),
               E("AB", intersection(<<S("A"), S("B")>>)),
               E("LitA", lit(Str("A"))),
               E("NumOrNull", union(<<S("number"), S("null")>>)),
               E("U1", union(<<S("AB"), S("NumOrNull")>>)),
               E("U2", union(<<S("NumOrNull"), S("AB")>>)),
               E("U3", union(<<S("LitA"), S("B")>>)),
               E("U4", union(<<S("B"), S("LitA")>>))>>>>,
           <<"a", "b">>, {}),
    Case(<<<<E("Shape",
                 union(<<iface(<<>>, <<P("kind", lit(Str("A"))), P("x", S("number"))>>),
                         iface(<<>>, <<P("kind", lit(Num(1))), P("y", S("string"))>>)>>))>>>>,
           <<"kind", "x", "y">>, {})>>

\* interfaces with an index signature
SuiteIndex ==
  Case(<<<<E("Base", iface(<<>>, <<P("id", S("number"))>>)),
           E("Dict", ifaceIdx(<<>>, <<>>, S("number"))),
           E("DictId", ifaceIdx(<<>>, <<P("id", S("number"))>>, S("number"))),
           E("DerivedDict", ifaceIdx(<<"Base">>, <<>>, S("number"))),
           E("DictAndBase", intersection(<<S("Dict"), S("Base")>>))>>>>,
       <<"id", "x">>, {})

\* type Tree = { value: number; children: Tree[] }
TreeIface == iface(<<>>, <<P("value", S("number")), P("children", array(S("Tree")))>>)
Leaf(v) == Obj(<<"value", "children">>, <<v, Arr(<<>>)>>)
TreeOf(v, children) == Obj(<<"value", "children">>, <<v, Arr(children)>>)
SuiteTree ==
  Case(<<<<E("Tree", TreeIface)>>>>,
       <<"value">>,
       {Leaf(Num(1)), Leaf(Str("A")),
        TreeOf(Num(1), <<Leaf(Num(1))>>), TreeOf(Num(1), <<Leaf(Str("A"))>>),
        TreeOf(Num(1), <<Leaf(Num(1)), TreeOf(Num(1), <<Leaf(Num(1))>>)>>),
        TreeOf(Num(1), <<Leaf(Num(1)), TreeOf(Num(1), <<Leaf(Str("A"))>>)>>),
        TreeOf(Num(1), <<Leaf(Num(1)), Obj(<<"value", "children", "x">>,
                                            <<Num(1), Arr(<<>>), Num(1)>>)>>),
        Obj(<<"value", "children">>, <<Num(1), Num(1)>>)})

\* a list with an optional self-reference, and two types that refer to each
\* other through optional properties, once through a Partial
SuiteRecursive ==
  Case(<<<<E("Node", iface(<<>>, <<P("value", S("number")), P("next", opt(S("Node")))>>)),
           E("Ping", iface(<<>>, <<P("x", S("number")), P("pong", opt(S("Pong")))>>)),
           E("Pong", iface(<<>>, <<P("ping", opt(partial(S("Ping"))))>>))>>>>,
       <<"value", "x">>,
       {Obj(<<"value", "next">>, <<Num(1), Obj(<<"value">>, <<Num(1)>>)>>),
        Obj(<<"value", "next">>, <<Num(1), Obj(<<"value">>, <<Str("A")>>)>>),
        Obj(<<"value", "next">>, <<Num(1), Obj(<<"value", "x">>, <<Num(1), Num(1)>>)>>),
        Obj(<<"x", "pong">>, <<Num(1), Obj(<<"ping">>, <<Obj(<<>>, <<>>)>>)>>),
        Obj(<<"x", "pong">>,
            <<Num(1), Obj(<<"ping">>, <<Obj(<<"pong">>, <<Obj(<<"ping">>, <<Num(1)>>)>>)>>)>>),
        Obj(<<"ping">>, <<Obj(<<"x">>, <<Str("A")>>)>>)})

\* type aliases that name each other
SuiteAlias ==
  Case(<<<<E("Id", name("number")), E("Key", name("Id")),
           E("Keys", array(S("Key")))>>>>, <<>>, {})

\* a non-optional property whose type is the interface itself, and one
\* whose type is a union holding the interface itself
SuitesSelf ==
  <<One("Node", iface(<<>>, <<P("next", S("Node"))>>)),
    One("Node", iface(<<>>, <<P("value", S("number")),
                               P("next", union(<<S("Node"), S("null")>>))>>))>>

\* properties whose types accept undefined
SuiteUndefinedProps ==
  Case(<<<<E("A", IfaceA), E("B", IfaceB),
           E("Loose", iface(<<>>, <<P("u", union(<<S("string"), S("undefined")>>)),
                                   P("v", S("any")),
                                   P("o", opt(S("number"))),
                                   P("n", S("number"))>>)),
           E("Both", iface(<<>>, <<P("n", S("number")),
                                  P("p", intersection(<<partial(S("A")), partial(S("B"))>>))>>))>>>>,
       <<"n", "u", "o">>,
       {Obj(<<"n", "v">>, <<Num(1), Null>>),
        Obj(<<"n", "p">>, <<Num(1), Obj(<<"a">>, <<Num(1)>>)>>),
        Obj(<<"n", "p">>, <<Num(1), Obj(<<"a">>, <<Str("A")>>)>>)})

\* tuples, with and without a rest element
SuiteTuple ==
  Case(<<<<E("Pair", tuple(<<S("string"), S("number")>>)),
           E("Numbers", NumberArray),
           E("Rest", tuple(<<S("string"), rest(NumberArray)>>)),
           E("RestByName", tuple(<<rest(S("Numbers"))>>))>>>>,
       <<>>,
       {Arr(<<Str("A"), Num(1), Num(1)>>), Arr(<<Str("A"), Num(1), Str("A")>>),
        Arr(<<Str("A"), Undef>>)})

\* a rest element that is not the last element of a tuple; as the type of
\* an optional property; as the element type of an array and as a union
\* member; as the type of a required property; of a type that is no array
SuitesRest ==
  <<Case(<<<<E("T", tuple(<<rest(NumberArray), S("string")>>))>>>>, <<>>,
           {Arr(<<Arr(<<Num(1)>>), Str("A")>>), Arr(<<Arr(<<Str("A")>>), Str("A")>>),
            Arr(<<Null, Str("A")>>)}),
    Case(<<<<E("T", iface(<<>>, <<P("p", opt(rest(NumberArray)))>>))>>>>, <<"p">>,
           {Obj(<<"p">>, <<Arr(<<Str("A")>>)>>), Obj(<<"p">>, <<Null>>)}),
    Case(<<<<E("T", array(rest(NumberArray))),
               E("U", union(<<rest(NumberArray), S("string")>>))>>>>, <<>>,
           {Arr(<<Arr(<<Str("A")>>)>>), Arr(<<Null>>)}),
    One("T", iface(<<>>, <<P("p", rest(NumberArray))>>)),
    One("T", tuple(<<S("string"), rest(S("number"))>>))>>

\* enums and enum literals
Direction == enumtype(<<[name |-> "Up", value |-> Num(1)], [name |-> "Down", value |-> Str("A")]>>)
SuiteEnum ==
  Case(<<<<E("Direction", Direction), E("Up", enumlit("Direction", "Up")),
           E("Move", iface(<<>>, <<P("dir", S("Direction")), P("up", opt(S("Up")))>>))>>>>,
       <<"dir", "up">>, {Num(2), Bool(TRUE)})
\* enum literals of a name no suite has, of a type that is no enum, and
\* of a member the enum lacks
SuitesEnumLit ==
  <<One("T", enumlit("Missing", "Up")),
    One("T", enumlit("string", "Up")),
    Case(<<<<E("Direction", Direction), E("T", enumlit("Direction", "Left"))>>>>, <<>>, {})>>

\* functions compile neither their parameters nor their result
SuiteFunc ==
  Case(<<<<E("F", func(S("Missing"), <<param("a", S("Nowhere"), FALSE)>>)),
           E("Api", iface(<<>>, <<P("find", func(S("number"),
                                                <<param("s", S("string"), FALSE),
                                                  param("pos", S("number"), TRUE)>>))>>))>>>>,
       <<"find">>, {Fn, Obj(<<"find">>, <<Fn>>)})

\* names that are in no suite, at every place a type can hold one
SuitesUnknown ==
  <<One("T", iface(<<>>, <<P("p", S("Missing"))>>)),
    One("T", iface(<<>>, <<P("p", opt(S("Missing")))>>)),
    One("T", iface(<<"Missing">>, <<>>)),
    One("T", ifaceIdx(<<>>, <<>>, S("Missing"))),
    One("T", array(S("Missing"))),
    One("T", tuple(<<S("string"), S("Missing")>>)),
    One("T", tuple(<<S("string"), rest(array(S("Missing")))>>)),
    One("T", tuple(<<rest(S("Missing"))>>)),
    One("T", union(<<S("string"), S("Missing")>>)),
    One("T", intersection(<<IfaceA, S("Missing")>>)),
    One("T", partial(S("Missing"))),
    One("T", name("Missing")),
    Case(<<<<E("Inner", iface(<<>>, <<P("deep", array(union(<<S("number"), S("Missing")>>)))>>)),
               E("Outer", iface(<<>>, <<P("inner", opt(S("Inner")))>>))>>>>, <<>>, {})>>

\* two suites: a name only the second has, and a name the second overrides
SuiteTwo ==
  Case(<<<<E("T", iface(<<>>, <<P("p", S("Later")), P("q", S("X"))>>)),
           E("X", name("string"))>>,
         <<E("Later", name("number")), E("X", name("number"))>>>>,
       <<"p", "q">>, {})
\* two suites, the second of which lacks what the first one names
SuiteTwoUnknown ==
  Case(<<<<E("T", iface(<<>>, <<P("p", S("Later"))>>))>>,
         <<E("Other", name("number"))>>>>, <<>>, {})

\* a Partial of an interface one of whose properties is an interface
SuitePartialNested ==
  Case(<<<<E("Inner", iface(<<>>, <<P("id", S("number"))>>)),
           E("Outer", iface(<<>>, <<P("inner", S("Inner")), P("n", S("number"))>>)),
           E("PartialOuter", partial(S("Outer")))>>>>,
       <<"n">>,
       {Obj(<<"inner">>, <<Obj(<<>>, <<>>)>>),
        Obj(<<"inner">>, <<Obj(<<"id">>, <<Num(1)>>)>>),
        Obj(<<"inner">>, <<Obj(<<"id">>, <<Str("A")>>)>>),
        Obj(<<"inner", "n">>, <<Obj(<<"id">>, <<Num(1)>>), Num(1)>>)})

\* two types that refer to each other through optional properties, once
\* through a Partial, the second with a required property
SuitePartialCycle ==
  Case(<<<<E("Ping", iface(<<>>, <<P("x", S("number")), P("pong", opt(S("Pong")))>>)),
           E("Pong", iface(<<>>, <<P("y", S("number")),
                                  P("ping", opt(partial(S("Ping"))))>>)),
           E("PartialPing", partial(S("Ping")))>>>>,
       <<"x", "y">>,
       {Obj(<<"pong">>, <<Obj(<<>>, <<>>)>>),
        Obj(<<"x", "pong">>, <<Num(1), Obj(<<"y">>, <<Num(1)>>)>>),
        Obj(<<"x", "pong">>,
            <<Num(1), Obj(<<"y", "ping">>, <<Num(1), Obj(<<"pong">>, <<Obj(<<>>, <<>>)>>)>>)>>)})

Catalogue ==
  <<SuitePerson, SuiteInherit>> \o SuitesIntersection \o SuitesUnion
    \o <<SuiteIndex, SuiteTree, SuiteRecursive, SuiteAlias>> \o SuitesSelf
    \o <<SuiteUndefinedProps, SuiteTuple>> \o SuitesRest \o <<SuiteEnum>>
    \o SuitesEnumLit \o <<SuiteFunc>> \o SuitesUnknown
    \o <<SuiteTwo, SuiteTwoUnknown, SuitePartialNested, SuitePartialCycle>>

Leaves == {Str("A")} \cup {Num(n) : n \in 1..MaxNum}

RECURSIVE ObjectsOver(_)
ObjectsOver(keys) ==
  IF Len(keys) = 0 THEN {Obj(<<>>, <<>>)}
  ELSE LET others == ObjectsOver(Tail(keys))
       IN others \cup {Obj(<<Head(keys)>> \o o.ks, <<l>> \o o.vs) : o \in others, l \in Leaves}

RECURSIVE ArraysOfLen(_)
ArraysOfLen(n) ==
  IF n = 0 THEN {<<>>} ELSE {Append(a, l) : a \in ArraysOfLen(n - 1), l \in Leaves}

ValuesOf(case) ==
  {Undef, Null} \cup Leaves \cup ObjectsOver(case.keys)
    \cup {Arr(a) : a \in UNION {ArraysOfLen(n) : n \in 0..MaxArrLen}}
    \cup case.extra

Values == [i \in 1..Len(Catalogue) |-> ValuesOf(Catalogue[i])]

Compiled == [i \in 1..Len(Catalogue) |-> createCheckers(Catalogue[i].typeSuite)]

-----------------------------------------------------------------------------
(* The state machine *)

NoSel == [name |-> "", value |-> Undef]
NoCall == [op |-> "", outcome |-> Returned("")]

Init ==
  /\ suiteId \in 1..Len(Catalogue)
  /\ phase = "new"
  /\ checkers = <<>>
  /\ heap = HeapOf(NewState)
  /\ slots = {}
  /\ reused = {}
  /\ thrown = ""
  /\ sel = NoSel
  /\ last = NoCall

\* const checkers = createCheckers(...typeSuite)
CreateCheckers ==
  /\ phase = "new"
  /\ \E r \in {Compiled[suiteId]} :
       /\ phase' = IF r.st.err = "" THEN "ready" ELSE "threw"
       /\ checkers' = IF r.st.err = "" THEN r.checkers ELSE <<>>
       /\ heap' = HeapOf(r.st)
       /\ slots' = r.st.slots
       /\ reused' = r.st.reused
       /\ thrown' = r.st.err
  /\ UNCHANGED <<suiteId, sel, last>>

\* checkers[name].<op>(value), on the checker and value of this run
Invoke(op) ==
  /\ phase = "ready"
  /\ \E n \in DOMAIN checkers, v \in Values[suiteId] :
       /\ sel \in {NoSel, [name |-> n, value |-> v]}
       /\ sel' = [name |-> n, value |-> v]
       /\ last' = [op |-> op, outcome |-> Call(op, checkers[n], v, heap)]
  /\ UNCHANGED <<suiteId, phase, checkers, heap, slots, reused, thrown>>

Test == Invoke("test")
Validate == Invoke("validate")
Check == Invoke("check")
StrictTest == Invoke("strictTest")
StrictValidate == Invoke("strictValidate")
StrictCheck == Invoke("strictCheck")

Next ==
  \/ CreateCheckers
  \/ Test
  \/ Validate
  \/ Check
  \/ StrictTest
  \/ StrictValidate
  \/ StrictCheck

Spec == Init /\ [][Next]_vars

-----------------------------------------------------------------------------
(* What the claims are stated with *)

\* the merged suite of the createCheckers() call of this run
Suite == FullSuite(Catalogue[suiteId].typeSuite)

\* the checker the calls of this run are made on
Selected == checkers[sel.name]

\* the outcome of <op> on the selected checker and value: the one just
\* recorded when <op> was the last call, else what a call of it returns
OutcomeOf(op) ==
  IF last.op = op THEN last.outcome ELSE Call(op, Selected, sel.value, heap)

\* new Checker(suite, ttype).test(value), for a type of the merged suite
TestType(ttype, value) ==
  LET r == Checker(Suite, ttype, <<0, 0>>, NewState)
  IN test(r.checker.checkerPlain, value, HeapOf(r.st))

\* the three operations of one mode agree
Agree(t, v, c) ==
  /\ (t.kind = "true") <=> (v.kind = "null")
  /\ (t.kind = "true") <=> (c.kind = "void")
  /\ t.kind = "false" => (v.kind = "details" /\ Len(v.details) > 0 /\ c.kind = "VError")
  /\ t.kind \in {"true", "false"} \/ (t.kind = "TypeError" /\ v.kind = "TypeError"
                                      /\ c.kind = "TypeError")

\* the type a Name stands for, through aliases
RECURSIVE Resolve(_, _)
Resolve(t, d) ==
  IF d > 0 /\ t.tag = "name" /\ t.name \in DOMAIN Suite
  THEN Resolve(Suite[t.name].ttype, d - 1) ELSE t

\* the properties an interface declares, its own and those of its bases
RECURSIVE DeclaredProps(_, _)
DeclaredProps(t, d) ==
  IF d = 0 THEN {}
  ELSE CASE t.tag = "iface" ->
              {[name |-> t.props[i].name, ttype |-> t.props[i].ttype, isOpt |-> t.props[i].isOpt] :
                 i \in 1..Len(t.props)}
                \cup UNION {DeclaredProps(name(t.bases[i]), d - 1) : i \in 1..Len(t.bases)}
         [] t.tag = "name" /\ t.name \in DOMAIN Suite ->
              DeclaredProps(Suite[t.name].ttype, d - 1)
         [] OTHER -> {}

\* the property names of the interfaces a type is made of: an interface's
\* own and inherited ones, those of every member of a union or intersection,
\* those of the interface a Partial wraps
RECURSIVE PropNames(_, _)
PropNames(t, d) ==
  IF d = 0 THEN {}
  ELSE CASE t.tag = "iface" ->
              t.propSet \cup UNION {PropNames(name(t.bases[i]), d - 1) : i \in 1..Len(t.bases)}
         [] t.tag = "name" /\ t.name \in DOMAIN Suite -> PropNames(Suite[t.name].ttype, d - 1)
         [] t.tag \in {"union", "intersection"} ->
              UNION {PropNames(t.ttypes[i], d - 1) : i \in 1..Len(t.ttypes)}
         [] t.tag = "partial" -> PropNames(t.ttype, d - 1)
         [] OTHER -> {}

\* a type made of interfaces none of which has an index signature
RECURSIVE NoIndex(_, _)
NoIndex(t, d) ==
  /\ d > 0
  /\ CASE t.tag = "iface" ->
            ~t.hasIndex /\ \A i \in 1..Len(t.bases) : NoIndex(name(t.bases[i]), d - 1)
       [] t.tag = "name" /\ t.name \in DOMAIN Suite -> NoIndex(Suite[t.name].ttype, d - 1)
       [] t.tag \in {"union", "intersection"} ->
            \A i \in 1..Len(t.ttypes) : NoIndex(t.ttypes[i], d - 1)
       [] t.tag = "partial" -> NoIndex(t.ttype, d - 1)
       [] OTHER -> FALSE

\* the type of the selected checker, through aliases
Root == Resolve(Selected.ttype, MaxStack)

\* the last call was validate or strictValidate and its list has this entry
Reported(path, message) ==
  /\ last.outcome.kind = "details"
  /\ \E i \in 1..Len(last.outcome.details) :
       last.outcome.details[i] = [path |-> path, message |-> message]

\* the keys of a value, as a set
KeySet(v) == {KeysOf(v)[i] : i \in 1..Len(KeysOf(v))}

\* two lists of types with the same members
SameMembers(a, b) ==
  /\ Len(a) = Len(b)
  /\ {a[i] : i \in 1..Len(a)} = {b[i] : i \in 1..Len(b)}

\* the last call was validate or strictValidate and its list has an entry
\* at this path
FailedAt(path) ==
  /\ last.outcome.kind = "details"
  /\ \E i \in 1..Len(last.outcome.details) : last.outcome.details[i].path = path

\* a name the merged suite (built-in types and the suites passed) defines
InSuite(n) == n \in DOMAIN Suite \cup BasicNames

\* a type that holds, where compilation reaches it, a name the merged suite
\* lacks or a malformed EnumLiteral; the types of a function's parameters
\* and result are not compiled
RECURSIVE Unresolved(_, _)
Unresolved(t, d) ==
  /\ d > 0
  /\ CASE t.tag = "name" -> ~InSuite(t.name)
       [] t.tag \in {"array", "partial", "opt"} -> Unresolved(t.ttype, d - 1)
       [] t.tag = "rest" -> Unresolved(parseSpec(t.typeSpec), d - 1)
       [] t.tag = "tuple" ->
            \/ \E i \in 1..Len(t.ttypes) : Unresolved(t.ttypes[i], d - 1)
            \/ t.hasRest /\ Unresolved(t.restType, d - 1)
       [] t.tag \in {"union", "intersection"} ->
            \E i \in 1..Len(t.ttypes) : Unresolved(t.ttypes[i], d - 1)
       [] t.tag = "iface" ->
            \/ \E i \in 1..Len(t.bases) : ~InSuite(t.bases[i])
            \/ \E i \in 1..Len(t.props) : Unresolved(t.props[i].ttype, d - 1)
            \/ t.hasIndex /\ Unresolved(t.indexType, d - 1)
       [] t.tag = "enumlit" ->
            \/ ~InSuite(t.enumName)
            \/ t.enumName \notin DOMAIN Suite
            \/ Suite[t.enumName].ttype.tag # "enum"
            \/ \A i \in 1..Len(Suite[t.enumName].ttype.members) :
                 Suite[t.enumName].ttype.members[i].name # t.prop
       [] OTHER -> FALSE

\* a type that holds a Rest anywhere but as the last element of a tuple
RECURSIVE MisplacedRest(_, _)
MisplacedRest(t, d) ==
  /\ d > 0
  /\ CASE t.tag = "rest" -> TRUE
       [] t.tag \in {"array", "partial", "opt"} -> MisplacedRest(t.ttype, d - 1)
       [] t.tag = "tuple" ->
            \/ \E i \in 1..Len(t.ttypes) : MisplacedRest(t.ttypes[i], d - 1)
            \/ /\ t.hasRest
               /\ t.restType.typeSpec.tag # "str"
               /\ MisplacedRest(t.restType.typeSpec, d - 1)
       [] t.tag \in {"union", "intersection"} ->
            \E i \in 1..Len(t.ttypes) : MisplacedRest(t.ttypes[i], d - 1)
       [] t.tag = "iface" ->
            \/ \E i \in 1..Len(t.props) : MisplacedRest(t.props[i].ttype, d - 1)
            \/ t.hasIndex /\ MisplacedRest(t.indexType, d - 1)
       [] OTHER -> FALSE

\* a type that holds, as the last element of a tuple, a Rest of something
\* that is not an array
RECURSIVE NonArrayRest(_, _)
NonArrayRest(t, d) ==
  /\ d > 0
  /\ CASE t.tag \in {"array", "partial", "opt"} -> NonArrayRest(t.ttype, d - 1)
       [] t.tag = "tuple" ->
            \/ \E i \in 1..Len(t.ttypes) : NonArrayRest(t.ttypes[i], d - 1)
            \/ /\ t.hasRest
               /\ LET spec == t.restType.typeSpec
                      arrType == IF spec.tag # "str" THEN spec
                                 ELSE IF spec.name \in DOMAIN Suite THEN Suite[spec.name].ttype
                                 ELSE BasicType(spec.name)
                  IN arrType.tag # "array" \/ NonArrayRest(arrType, d - 1)
       [] t.tag \in {"union", "intersection"} ->
            \E i \in 1..Len(t.ttypes) : NonArrayRest(t.ttypes[i], d - 1)
       [] t.tag = "iface" ->
            \/ \E i \in 1..Len(t.props) : NonArrayRest(t.props[i].ttype, d - 1)
            \/ t.hasIndex /\ NonArrayRest(t.indexType, d - 1)
       [] OTHER -> FALSE

\* the types createCheckers() of this run is passed
SuiteTypes ==
  LET typeSuite == Catalogue[suiteId].typeSuite
  IN UNION {{typeSuite[k][i].ttype : i \in 1..Len(typeSuite[k])} : k \in 1..Len(typeSuite)}

SuiteNames ==
  LET typeSuite == Catalogue[suiteId].typeSuite
  IN UNION {{typeSuite[k][i].name : i \in 1..Len(typeSuite[k])} : k \in 1..Len(typeSuite)}

HasUnresolved == \E t \in SuiteTypes : Unresolved(t, MaxStack)
HasMisplacedRest == \E t \in SuiteTypes : MisplacedRest(t, MaxStack)
HasNonArrayRest == \E t \in SuiteTypes : NonArrayRest(t, MaxStack)

\* every tuple type of a set of types, at any depth
RECURSIVE TuplesOf(_, _)
TuplesOf(t, d) ==
  IF d = 0 THEN {}
  ELSE CASE t.tag \in {"array", "partial", "opt"} -> TuplesOf(t.ttype, d - 1)
         [] t.tag = "tuple" ->
              {t} \cup UNION {TuplesOf(t.ttypes[i], d - 1) : i \in 1..Len(t.ttypes)}
         [] t.tag \in {"union", "intersection"} ->
              UNION {TuplesOf(t.ttypes[i], d - 1) : i \in 1..Len(t.ttypes)}
         [] t.tag = "iface" ->
              UNION {TuplesOf(t.props[i].ttype, d - 1) : i \in 1..Len(t.props)}
         [] OTHER -> {}

\* a value of type Tree = {value: number, children: Tree[]}
RECURSIVE IsTree(_, _)
IsTree(v, d) ==
  /\ d > 0
  /\ IsObject(v)
  /\ GetKey(v, "value").t = "number"
  /\ IsArray(GetKey(v, "children"))
  /\ \A i \in 1..Len(GetKey(v, "children").items) : IsTree(GetKey(v, "children").items[i], d - 1)

\* the bindings the thunks inside a compiled checker dereference
RECURSIVE ThunkCells(_)
ThunkCells(chk) ==
  CASE chk.c = "thunk" -> {chk.cell}
    [] chk.c \in {"array", "rest", "undefinedOr"} -> ThunkCells(chk.itemChecker)
    [] chk.c = "named" -> ThunkCells(chk.checker)
    [] chk.c = "tuple" ->
         UNION {ThunkCells(chk.itemCheckers[i]) : i \in 1..Len(chk.itemCheckers)}
           \cup (IF chk.hasRest THEN ThunkCells(chk.restChecker) ELSE {})
    [] chk.c \in {"union", "intersection"} ->
         UNION {ThunkCells(chk.items[i]) : i \in 1..Len(chk.items)}
    [] chk.c = "iface" ->
         UNION {ThunkCells(chk.bases[i]) : i \in 1..Len(chk.bases)}
           \cup UNION {ThunkCells(chk.props[i].checker) : i \in 1..Len(chk.props)}
           \cup (IF chk.hasIndex THEN ThunkCells(chk.indexTypeChecker) ELSE {})
    [] chk.c = "paramlist" ->
         UNION {ThunkCells(chk.params[i].checker) : i \in 1..Len(chk.params)}
    [] OTHER -> {}

-----------------------------------------------------------------------------
(* The claims *)

\* C1: after any sequence of calls on a checker and a value, test returns
\* true iff validate returns null iff check does not throw, and when test
\* returns false validate returns a non-empty list and check throws; the
\* same for strictTest, strictValidate and strictCheck.
C1_OperationsAgree ==
  last.op # "" =>
    /\ Agree(OutcomeOf("test"), OutcomeOf("validate"), OutcomeOf("check"))
    /\ Agree(OutcomeOf("strictTest"), OutcomeOf("strictValidate"), OutcomeOf("strictCheck"))

\* a validate() that failed after a test() on the same Person value
C1_Witness ==
  /\ sel.name = "Person"
  /\ last.op = "validate"
  /\ last.outcome.kind = "details"
  /\ Len(last.outcome.details) > 0
  /\ OutcomeOf("test").kind = "false"

\* C2: a value strictTest accepts is a value test accepts, for every type.
C2_StrictImpliesPlain ==
  (last.op = "strictTest" /\ last.outcome.kind = "true") => OutcomeOf("test").kind = "true"

\* strictTest accepted an object for an interface with bases, and rejects
\* another value of that type that test accepts
C2_Witness ==
  /\ sel.name = "Derived"
  /\ last.op = "strictTest"
  /\ last.outcome.kind = "true"
  /\ \E v \in Values[suiteId] :
       /\ Call("test", Selected, v, heap).kind = "true"
       /\ Call("strictTest", Selected, v, heap).kind = "false"

\* C3: in strict mode an interface without an index signature, alone or as
\* a conjunct of an intersection (inline, by name, in a union or in a
\* Partial), reports a key of the value as extraneous if and only if the key
\* is none of its own property names, of those of its bases and of those of
\* the sibling conjuncts.
C3_ExtraneousIffUndeclared ==
  (/\ last.op = "strictValidate"
   /\ Root.tag \in {"iface", "intersection"}
   /\ NoIndex(Root, MaxStack)
   /\ IsObject(sel.value))
    => \A k \in KeySet(sel.value) :
         Reported(Selected.path \o "." \o k, "is extraneous")
           <=> k \notin PropNames(Root, MaxStack)

\* C4: outside Partial, an absent declared property is reported as missing
\* if and only if it is not optional and the checker of its type rejects
\* undefined; an object holding every declared property with a valid value
\* is accepted.
C4_MissingIffRequired ==
  (/\ last.op = "validate"
   /\ Root.tag = "iface"
   /\ IsObject(sel.value))
    => /\ \A p \in DeclaredProps(Root, MaxStack) :
            GetKey(sel.value, p.name) = Undef =>
              (Reported(Selected.path \o "." \o p.name, "is missing")
                 <=> (~p.isOpt /\ TestType(p.ttype, Undef).kind = "false"))
       /\ (/\ ~Root.hasIndex
           /\ \A p \in DeclaredProps(Root, MaxStack) :
                /\ GetKey(sel.value, p.name) # Undef
                /\ TestType(p.ttype, GetKey(sel.value, p.name)).kind = "true")
            => last.outcome.kind = "null"

\* C5: Partial(I) accepts undefined and every object whose present declared
\* properties validate against their declared types, whichever are absent;
\* an object is accepted exactly when every present declared property
\* validates against its declared type; a value I accepts Partial(I) accepts.
C5_PartialAccepts ==
  (/\ last.op = "test"
   /\ Selected.ttype.tag = "partial"
   /\ Resolve(Selected.ttype.ttype, MaxStack).tag = "iface")
    => LET I == Selected.ttype.ttype
           v == sel.value
           valid == \A p \in DeclaredProps(I, MaxStack) :
                      \/ GetKey(v, p.name) = Undef
                      \/ TestType(p.ttype, GetKey(v, p.name)).kind = "true"
       IN /\ v = Undef => last.outcome.kind = "true"
          /\ IsObject(v) => ((last.outcome.kind = "true") <=> valid)
          /\ TestType(I, v).kind = "true" => last.outcome.kind = "true"

\* C6: a union accepts a value if and only if one of its alternatives does,
\* and so does the union of the same alternatives in another order.
C6_UnionCommutes ==
  (last.op = "test" /\ Selected.ttype.tag = "union")
    => /\ (last.outcome.kind = "true")
            <=> \E i \in 1..Len(Selected.ttype.ttypes) :
                  TestType(Selected.ttype.ttypes[i], sel.value).kind = "true"
       /\ \A n \in DOMAIN checkers :
            (/\ checkers[n].ttype.tag = "union"
             /\ SameMembers(checkers[n].ttype.ttypes, Selected.ttype.ttypes))
              => Call("test", checkers[n], sel.value, heap).kind = last.outcome.kind

\* a union of interfaces accepted a value its first alternative rejects,
\* and the suite holds the same union in the other order
C6_Witness ==
  /\ sel.name = "UAB"
  /\ last.op = "test"
  /\ last.outcome.kind = "true"
  /\ TestType(Selected.ttype.ttypes[1], sel.value).kind = "false"
  /\ "UBA" \in DOMAIN checkers
  /\ checkers["UBA"].ttype # Selected.ttype
  /\ SameMembers(checkers["UBA"].ttype.ttypes, Selected.ttype.ttypes)

\* C7: for an interface with an index signature, with or without bases, in
\* plain and in strict mode, no key of the value is reported as extraneous,
\* and a key that is no declared property is reported if and only if its
\* value fails the index type.
C7_IndexNeverExtraneous ==
  (/\ last.op \in {"validate", "strictValidate"}
   /\ Root.tag = "iface"
   /\ Root.hasIndex
   /\ IsObject(sel.value))
    => \A k \in KeySet(sel.value) :
         /\ ~Reported(Selected.path \o "." \o k, "is extraneous")
         /\ k \notin PropNames(Root, MaxStack) =>
              (FailedAt(Selected.path \o "." \o k)
                 <=> TestType(Root.indexType, GetKey(sel.value, k)).kind = "false")

\* C8: createCheckers returns a checker for every type of a suite whose
\* names all resolve and whose Rest types are well placed, recursive types
\* included, leaving no in-progress slot; the checker of Tree accepts
\* exactly the well-formed trees.
C8_RecursiveSuitesCompile ==
  /\ (phase # "new" /\ ~HasUnresolved /\ ~HasMisplacedRest /\ ~HasNonArrayRest)
       => (phase = "ready" /\ DOMAIN checkers = SuiteNames /\ slots = {})
  /\ (last.op = "test" /\ Selected.ttype = TreeIface)
       => ((last.outcome.kind = "true") <=> IsTree(sel.value, MaxStack))

\* C9: createCheckers throws, and returns no checker, whenever a type of
\* the suites holds, where compilation reaches it, a name the merged suite
\* lacks or an EnumLiteral of something that is no enum with that member.
C9_UnresolvedNameThrows ==
  (phase # "new" /\ HasUnresolved)
    => (phase = "threw" /\ thrown # "" /\ checkers = <<>> /\ last = NoCall)

\* createCheckers threw for a name only a property two levels down holds
C9_Witness ==
  /\ phase = "threw"
  /\ HasUnresolved
  /\ thrown = "Unknown type Missing"
  /\ "Outer" \in SuiteNames

\* C10: the Rest a tuple ends with is taken out of the tuple's element
\* types and starts at their number; createCheckers throws for a suite that
\* holds a Rest anywhere else.
C10_MisplacedRestThrows ==
  /\ \A t \in SuiteTypes : \A u \in TuplesOf(t, MaxStack) :
       u.hasRest => (/\ u.restType.start = Len(u.ttypes)
                     /\ \A i \in 1..Len(u.ttypes) : u.ttypes[i] # u.restType)
  /\ (phase # "new" /\ HasMisplacedRest) => phase = "threw"

\* C11: a tuple of k fixed element types (none of them a Rest), with or
\* without a Rest at its end, rejects every value that is no array, and accepts an array if and
\* only if its positions 0..k-1 validate against the fixed types and, with
\* a Rest, every element from index k on validates against the element type
\* of the Rest, and, without a Rest in strict mode, it has no more than k
\* elements; validate reports the first offending index, and strictValidate
\* reports index k of a longer array as extraneous.
C11_TupleAccepts ==
  (last.op # "" /\ Selected.ttype.tag = "tuple" /\ ~MisplacedRest(Selected.ttype, MaxStack))
    => LET t == Selected.ttype
           k == Len(t.ttypes)
           v == sel.value
           n == IF IsArray(v) THEN Len(v.items) ELSE 0
           strict == last.op \in {"strictTest", "strictValidate", "strictCheck"}
           Accepts(ttype, x) ==
             LET r == Checker(Suite, ttype, <<0, 0>>, NewState)
             IN test(IF strict THEN r.checker.checkerStrict ELSE r.checker.checkerPlain,
                     x, HeapOf(r.st)).kind = "true"
           element == IF t.restType.typeSpec.tag = "str"
                      THEN Suite[t.restType.typeSpec.name].ttype.ttype
                      ELSE t.restType.typeSpec.ttype
           Offends(i) == IF i < k THEN ~Accepts(t.ttypes[i + 1], GetIdx(v, i))
                         ELSE t.hasRest /\ ~Accepts(element, GetIdx(v, i))
           offending == {i \in 0..((IF n > k THEN n ELSE k) - 1) : Offends(i)}
           first == CHOOSE i \in offending : \A j \in offending : i <= j
           tooLong == ~t.hasRest /\ strict /\ n > k
           accepted == last.outcome.kind \in {"true", "null", "void"}
           rejected == last.outcome.kind \in {"false", "details", "VError"}
       IN /\ accepted \/ rejected
          /\ ~IsArray(v) => rejected
          /\ IsArray(v) => (accepted <=> (offending = {} /\ ~tooLong))
          /\ (IsArray(v) /\ offending # {} /\ last.outcome.kind = "details")
               => /\ FailedAt(Selected.path \o "[" \o NumStr(first) \o "]")
                  /\ Len(last.outcome.details) = 1
          /\ (IsArray(v) /\ offending = {} /\ tooLong /\ last.outcome.kind = "details")
               => last.outcome.details =
                    <<[path |-> Selected.path \o "[" \o NumStr(k) \o "]",
                       message |-> "is extraneous"]>>

\* validate on a tuple ending with a Rest reported the element at index 2,
\* past the fixed types, and strictTest of the tuple without a Rest rejects
\* a longer array that test accepts
C11_Witness ==
  /\ sel.name = "Rest"
  /\ last.op = "validate"
  /\ sel.value = Arr(<<Str("A"), Num(1), Str("A")>>)
  /\ FailedAt("value[2]")
  /\ Call("test", checkers["Pair"], Arr(<<Str("A"), Num(1), Num(1)>>), heap).kind = "true"
  /\ Call("strictTest", checkers["Pair"], Arr(<<Str("A"), Num(1), Num(1)>>), heap).kind = "false"

\* C12: an intersection checker returns true if and only if none of its
\* conjuncts fails on the value, wherever it is called: test on an
\* intersection is the conjunction of test on its conjuncts, validate lists
\* the entries of every failing conjunct, and the probe of a required
\* property whose type is an intersection finds it to accept undefined
\* exactly when every conjunct accepts undefined.
C12_IntersectionIsConjunction ==
  LET DetailsOf(ttype, v) ==
        LET r == Checker(Suite, ttype, <<0, 0>>, NewState)
        IN doValidate(r.checker.checkerPlain, v, "value", HeapOf(r.st))
      Entries(details) == {details[i] : i \in 1..Len(details)}
  IN /\ (last.op \in {"test", "validate"} /\ Selected.ttype.tag = "intersection")
          => LET conjuncts == Selected.ttype.ttypes
             IN /\ (last.outcome.kind \in {"true", "null"})
                     <=> \A i \in 1..Len(conjuncts) :
                           TestType(conjuncts[i], sel.value).kind = "true"
                /\ last.op = "validate" =>
                     \A i \in 1..Len(conjuncts) :
                       TestType(conjuncts[i], sel.value).kind = "false" =>
                         /\ last.outcome.kind = "details"
                         /\ Entries(DetailsOf(conjuncts[i], sel.value).details)
                              \subseteq Entries(last.outcome.details)
     /\ \A n \in DOMAIN checkers :
          (/\ checkers[n].ttype.tag = "iface"
           /\ checkers[n].checkerPlain.c = "iface")
            => \A i \in 1..Len(checkers[n].ttype.props) :
                 LET prop == checkers[n].ttype.props[i]
                 IN (prop.ttype.tag = "intersection" /\ ~prop.isOpt)
                      => (checkers[n].checkerPlain.isPropRequired[i]
                            <=> \E j \in 1..Len(prop.ttype.ttypes) :
                                  TestType(prop.ttype.ttypes[j], Undef).kind = "false")

\* C13: no Name node holds an in-progress checker once createCheckers has
\* returned or thrown, nor between the plain and the strict compilation of
\* a Checker, nor after getProp() compiled the type of a property; the
\* thunks of a strict checker dereference none of the bindings the plain
\* compilation made, and compiling the suite again from the slots that
\* createCheckers left gives what the first compilation gave.
C13_SlotsCleared ==
  /\ phase # "new" => slots = {}
  /\ \A n \in DOMAIN checkers :
       /\ GetChecker(Suite, checkers[n].ttype, checkers[n].node, FALSE, FALSE, NoSet,
                     MaxStack, [NewState EXCEPT !.slots = slots]).st.slots = {}
       /\ ThunkCells(checkers[n].checkerPlain) \cap ThunkCells(checkers[n].checkerStrict) = {}
       /\ checkers[n].ttype.tag = "iface" =>
            \A i \in 1..Len(checkers[n].ttype.props) :
              Checker(Suite, checkers[n].ttype.props[i].ttype, Append(checkers[n].node, i),
                      [NewState EXCEPT !.slots = slots]).st.slots = {}
  /\ phase # "new" =>
       CheckersFrom(Catalogue[suiteId].typeSuite, Suite, 1, 1,
                    [NewState EXCEPT !.slots = slots], <<>>).checkers = Compiled[suiteId].checkers

\* createCheckers threw "Unknown type" from below two Name nodes that were
\* being built, and left no slot set
C13_Witness ==
  /\ phase = "threw"
  /\ thrown = "Unknown type Missing"
  /\ "Outer" \in SuiteNames
  /\ slots = {}

\* C14: every getChecker call on a Name node that was handed the cached
\* in-progress checker passed the arguments (strict, isPartial,
\* allowedProps) of the call that was building it, and in plain mode the
\* checker it was handed accepts the values that a checker compiled afresh
\* for that name with the arguments of the call accepts.
C14_ReentrySameArguments ==
  phase # "new" =>
    \A e \in reused :
      /\ e.asked = e.built
      /\ (phase = "ready" /\ ~e.asked.strict) =>
           LET fresh == GetChecker(Suite, name(e.name), e.node, FALSE, e.asked.isPartial,
                                   NoSet, MaxStack, NewState)
           IN \A v \in Values[suiteId] :
                test(heap.cells[e.cell], v, heap) = test(fresh.chk, v, HeapOf(fresh.st))

\* C15: createCheckers on a suite whose names all resolve and whose Rest
\* types are well placed never throws an internal error: no probe of a
\* required property or parameter calls the thunk of a Name node whose
\* checker has not been assigned yet.
C15_ProbeNeverCallsThunk ==
  (phase # "new" /\ ~HasUnresolved /\ ~HasMisplacedRest /\ ~HasNonArrayRest)
    => thrown \notin {"TypeError", "RangeError"}

====
